---- MODULE Spec2Model ----
(***************************************************************************)
(* Model of the directed-graph engine of the conversations package:        *)
(* DirectedGraph (src/conversations/Graph.py), the PathCost accumulator    *)
(* (src/conversations/Interactions.py) and the default policies            *)
(* (src/conversations/defaults.py).                                        *)
(*                                                                         *)
(* Nodes are Python objects compared by identity.  The model names them    *)
(* 1, 2, 3, ... in the order in which add_edge first sees them, so the     *)
(* insertion order of the main graph's adjacency dict is 1, 2, 3, ...      *)
(* None is written 0.                                                      *)
(***************************************************************************)
EXTENDS Naturals, Integers, Sequences, FiniteSets, TLC

\* ---------------------------------------------------------------- bounds
NumNodes == 6
MaxEdges == 2
MaxDagEdges == 5
MaxRowEdges == 6
MaxCalls == 1
MaxCosts == 3
MaxFilterEdges == 3
MaxRows == 3
MaxStepEdges == 3
MaxTime == 2

Node == 1..NumNodes
None == 0

Min2(a, b) == IF a < b THEN a ELSE b

\* ------------------------------------------------------------- utilities
Range(s) == {s[i] : i \in 1..Len(s)}

InSeq(x, s) == \E i \in 1..Len(s) : s[i] = x

Last(s) == s[Len(s)]

Front(s) == SubSeq(s, 1, Len(s) - 1)

\* A best_path that forgets to reverse the walk
NotReversed(s) == s

Reverse(s) == [i \in 1..Len(s) |-> s[Len(s) + 1 - i]]

\* utils.pairwise: [a, b, c] -> [(a, b), (b, c)]
pairwise(s) == [i \in 1..(IF Len(s) = 0 THEN 0 ELSE Len(s) - 1) |-> <<s[i], s[i + 1]>>]

\* The permutations of a finite set, as sequences: the orders in which
\* Python may iterate a set of objects hashed by address.
Orders(S) == {s \in [1..Cardinality(S) -> S] : Range(s) = S}

\* ------------------------------------------------------------- segments
\* Segment.__init__: a node carries index, speaker, onset and offset.
Segment(index, speaker, onset, offset) ==
    [index |-> index, speaker |-> speaker, onset |-> onset, offset |-> offset]

\* Segment.duration
SegDuration(seg) == seg.offset - seg.onset

\* Segment tables the graphs are built over.
\* Alternating speakers, 100 ms each, 100 ms apart.
SegAlternating ==
    [n \in Node |-> Segment(n, IF n % 2 = 1 THEN "CHI" ELSE "FEM",
                            200 * (n - 1), 200 * (n - 1) + 100)]

\* Three speakers, durations 200, 100, 0, 200, 100, ... (empty segments occur).
SegVaried ==
    [n \in Node |-> Segment(n, IF n % 3 = 1 THEN "CHI" ELSE IF n % 3 = 2 THEN "FEM" ELSE "MAL",
                            50 * (n - 1), 50 * (n - 1) + 100 * ((2 * n) % 3))]

SegmentTables == {SegAlternating, SegVaried}

\* ------------------------------------------------------- the graph store
\* DirectedGraph.__init__: an empty adjacency and the always-true policy.
\* adjacency is a dict: `nodes` is its key order, `next` and `cost` the two
\* entries of each key.  A cost table is a dict ancestor -> (cost, previous
\* node), kept as the sequence of its items in insertion order.
DirectedGraph(transition_rules) ==
    [nodes |-> <<>>,
     next |-> [n \in Node |-> <<>>],
     cost |-> [n \in Node |-> <<>>],
     transition_rules |-> transition_rules]

\* An add_edge that keeps the successors as a set: a target already listed is
\* not listed again
add_edge_once(g, node1, node2) ==
    LET ns1 == IF InSeq(node1, g.nodes) THEN g.nodes ELSE Append(g.nodes, node1)
        ns2 == IF InSeq(node2, ns1) THEN ns1 ELSE Append(ns1, node2)
    IN  [g EXCEPT !.nodes = ns2,
                  !.next[node1] = IF InSeq(node2, @) THEN @ ELSE Append(@, node2)]

\* DirectedGraph.add_edge
add_edge(g, node1, node2) ==
    LET ns1 == IF InSeq(node1, g.nodes) THEN g.nodes ELSE Append(g.nodes, node1)
        ns2 == IF InSeq(node2, ns1) THEN ns1 ELSE Append(ns1, node2)
    IN  [g EXCEPT !.nodes = ns2, !.next[node1] = Append(@, node2)]

\* DirectedGraph.from_tuple_list
RECURSIVE from_tuple_list_from(_, _, _)
from_tuple_list_from(g, tuple_list, i) ==
    IF i > Len(tuple_list) THEN g
    ELSE from_tuple_list_from(add_edge(g, tuple_list[i][1], tuple_list[i][2]), tuple_list, i + 1)

from_tuple_list(tuple_list) ==
    from_tuple_list_from(DirectedGraph("always_true"), tuple_list, 1)

\* zip(repeat(node, len(next)), next): the pairs (node, successor)
NextPairs(g, node) == [i \in 1..Len(g.next[node]) |-> <<node, g.next[node][i]>>]

\* DirectedGraph.__iter__: the edges, by adjacency key then successor order
RECURSIVE EdgesFrom(_, _)
EdgesFrom(g, i) ==
    IF i > Len(g.nodes) THEN <<>>
    ELSE NextPairs(g, g.nodes[i]) \o EdgesFrom(g, i + 1)

Edges(g) == EdgesFrom(g, 1)

\* DirectedGraph.num_edges
num_edges(g) == Len(Edges(g))

\* DirectedGraph.num_nodes
num_nodes(g) == Len(g.nodes)

\* A start_nodes that forgets to take the targets away
left_nodes(g) == {e[1] : e \in Range(Edges(g))}

\* DirectedGraph.start_nodes (set(left_nodes) - set(right_nodes))
start_nodes(g) == {e[1] : e \in Range(Edges(g))} \ {e[2] : e \in Range(Edges(g))}

\* DirectedGraph.end_nodes (set(right_nodes) - set(left_nodes))
end_nodes(g) == {e[2] : e \in Range(Edges(g))} \ {e[1] : e \in Range(Edges(g))}

\* ------------------------------------------------------ transition policy
\* defaults.default_turn_transition_rules
default_turn_transition_rules(candidate_node, connected_node, kw) ==
    IF kw.interactants # {}
    THEN \/ candidate_node.speaker = kw.target_participant
            /\ connected_node.speaker \in kw.interactants
         \/ candidate_node.speaker \in kw.interactants
            /\ connected_node.speaker = kw.target_participant
         \/ kw.allow_interactions_btw_interactants
            /\ candidate_node.speaker \in kw.interactants
            /\ connected_node.speaker \in kw.interactants
            /\ candidate_node.speaker # connected_node.speaker
         \/ kw.allow_multi_unit_turns
            /\ candidate_node.speaker = connected_node.speaker
    ELSE \/ candidate_node.speaker = kw.target_participant
         \/ connected_node.speaker = kw.target_participant
         \/ kw.allow_interactions_btw_interactants
         \/ kw.allow_multi_unit_turns
            /\ candidate_node.speaker = connected_node.speaker

\* The keyword arguments a caller passes to get_connected_components.
Kwargs ==
    [target_participant : {"CHI"},
     interactants : {{}, {"FEM"}},
     allow_multi_unit_turns : BOOLEAN,
     allow_interactions_btw_interactants : BOOLEAN]

\* The policies a graph is constructed with: the default lambda of
\* DirectedGraph.__init__, a caller's lambda that rejects every edge, and
\* default_turn_transition_rules.
TransitionRules == {"always_true", "reject_all", "default_turn_transition_rules"}

\* An _apply_transition_rules that calls the default lambda, not the policy
\* the graph was given
apply_default_rules(g, segs, candidate_node, connected_node, kw) == TRUE

\* DirectedGraph._apply_transition_rules
apply_transition_rules(g, segs, candidate_node, connected_node, kw) ==
    CASE g.transition_rules = "always_true" -> TRUE
      [] g.transition_rules = "reject_all" -> FALSE
      [] OTHER -> default_turn_transition_rules(segs[candidate_node], segs[connected_node], kw)

\* ---------------------------------------------------- component extraction
\* get_connected_components, the while loop of one seed: pop the last pair,
\* skip it when visited, record it and push the target's successors when
\* the policy accepts it.  (`if not connected_node` never fires: a node
\* object is truthy.)
RECURSIVE Traverse(_, _, _, _, _, _)
Traverse(g, segs, kw, next_nodes_to_visit, visited_pairs, transition) ==
    IF next_nodes_to_visit = <<>>
    THEN [visited_pairs |-> visited_pairs, transition |-> transition]
    ELSE LET node_pair == Last(next_nodes_to_visit)
             rest == Front(next_nodes_to_visit)
         IN  IF node_pair \in visited_pairs
             THEN Traverse(g, segs, kw, rest, visited_pairs, transition)
             ELSE IF apply_transition_rules(g, segs, node_pair[1], node_pair[2], kw)
                  THEN Traverse(g, segs, kw, rest \o NextPairs(g, node_pair[2]),
                                visited_pairs \cup {node_pair}, Append(transition, node_pair))
                  ELSE Traverse(g, segs, kw, rest, visited_pairs \cup {node_pair}, transition)

\* get_connected_components, the loop over the seeds (adjacency keys)
RECURSIVE ChainSequences(_, _, _, _, _, _)
ChainSequences(g, segs, kw, i, visited_pairs, chain_sequences) ==
    IF i > Len(g.nodes) THEN chain_sequences
    ELSE LET t == Traverse(g, segs, kw, NextPairs(g, g.nodes[i]), visited_pairs, <<>>)
         IN  ChainSequences(g, segs, kw, i + 1, t.visited_pairs,
                            IF t.transition # <<>> THEN Append(chain_sequences, t.transition)
                            ELSE chain_sequences)

\* set(chain(*chain)): the nodes of a chain of pairs
Flat(chain) == {e[1] : e \in Range(chain)} \cup {e[2] : e \in Range(chain)}

\* A merge pass that marks the second chain as merged and does not copy it
\* into the first
RECURSIVE MergeInner_dropped(_, _, _, _, _)
MergeInner_dropped(chain_sequences, to_skip, i_t1, t1_flat, i_t2) ==
    IF i_t2 > Len(chain_sequences)
    THEN [chain_sequences |-> chain_sequences, to_skip |-> to_skip]
    ELSE IF t1_flat \cap Flat(chain_sequences[i_t2]) # {}
         THEN MergeInner_dropped(chain_sequences, to_skip \cup {i_t2}, i_t1, t1_flat, i_t2 + 1)
         ELSE MergeInner_dropped(chain_sequences, to_skip, i_t1, t1_flat, i_t2 + 1)

\* The merge pass, inner loop: t1_flat is computed once per i_t1 and not
\* refreshed after a merge, and i_t2 is not tested against to_skip.
RECURSIVE MergeInner(_, _, _, _, _)
MergeInner(chain_sequences, to_skip, i_t1, t1_flat, i_t2) ==
    IF i_t2 > Len(chain_sequences)
    THEN [chain_sequences |-> chain_sequences, to_skip |-> to_skip]
    ELSE IF t1_flat \cap Flat(chain_sequences[i_t2]) # {}
         THEN MergeInner([chain_sequences EXCEPT ![i_t1] = @ \o chain_sequences[i_t2]],
                         to_skip \cup {i_t2}, i_t1, t1_flat, i_t2 + 1)
         ELSE MergeInner(chain_sequences, to_skip, i_t1, t1_flat, i_t2 + 1)

\* The merge pass, outer loop
RECURSIVE MergeOuter(_, _, _)
MergeOuter(chain_sequences, to_skip, i_t1) ==
    IF i_t1 > Len(chain_sequences)
    THEN [chain_sequences |-> chain_sequences, to_skip |-> to_skip]
    ELSE IF i_t1 \in to_skip
         THEN MergeOuter(chain_sequences, to_skip, i_t1 + 1)
         ELSE LET m == MergeInner(chain_sequences, to_skip, i_t1,
                                  Flat(chain_sequences[i_t1]), i_t1 + 1)
              IN  MergeOuter(m.chain_sequences, m.to_skip, i_t1 + 1)

\* The chains kept after the merge pass, in order
RECURSIVE Kept(_, _, _)
Kept(chain_sequences, to_skip, i) ==
    IF i > Len(chain_sequences) THEN <<>>
    ELSE (IF i \in to_skip THEN <<>> ELSE <<chain_sequences[i]>>)
         \o Kept(chain_sequences, to_skip, i + 1)

\* The chains get_connected_components turns into graphs
merged_chains(g, segs, kw) ==
    LET m == MergeOuter(ChainSequences(g, segs, kw, 1, {}, <<>>), {}, 1)
    IN  Kept(m.chain_sequences, m.to_skip, 1)

\* DirectedGraph.get_connected_components
get_connected_components(g, segs, kw) ==
    LET chains == merged_chains(g, segs, kw)
    IN  [i \in 1..Len(chains) |-> from_tuple_list(chains[i])]

\* ------------------------------------------------------- cost accumulator
\* PathCost.__init__: the cost of the path made of one segment
PathCost(segs, segment) ==
    [ancestor |-> segment,
     speakers |-> <<segs[segment].speaker>>,
     duration |-> SegDuration(segs[segment]),
     turn_transitions |-> 0,
     multi_unit_turn_transitions |-> 0]

\* A PathCost.__add__ that does not restore the receiver's ancestor on the
\* copy: the result is rooted at the segment added
PathCost_add_rerooted(segs, cost, other) ==
    [ancestor |-> other,
     speakers |-> Append(cost.speakers, segs[other].speaker),
     duration |-> cost.duration + SegDuration(segs[other]),
     turn_transitions |->
         cost.turn_transitions + (IF segs[other].speaker # Last(cost.speakers) THEN 1 ELSE 0),
     multi_unit_turn_transitions |->
         cost.multi_unit_turn_transitions + (IF segs[other].speaker = Last(cost.speakers) THEN 1 ELSE 0)]

\* A PathCost.__add__ that compares the speaker of the segment added with
\* the first speaker of the path, not the last
PathCost_add_first(segs, cost, other) ==
    [ancestor |-> cost.ancestor,
     speakers |-> Append(cost.speakers, segs[other].speaker),
     duration |-> cost.duration + SegDuration(segs[other]),
     turn_transitions |->
         cost.turn_transitions + (IF segs[other].speaker # Head(cost.speakers) THEN 1 ELSE 0),
     multi_unit_turn_transitions |->
         cost.multi_unit_turn_transitions + (IF segs[other].speaker = Head(cost.speakers) THEN 1 ELSE 0)]

\* PathCost.__add__: a fresh copy with the segment folded in; the ancestor is
\* the receiver's
PathCost_add(segs, cost, other) ==
    [ancestor |-> cost.ancestor,
     speakers |-> Append(cost.speakers, segs[other].speaker),
     duration |-> cost.duration + SegDuration(segs[other]),
     turn_transitions |->
         cost.turn_transitions + (IF segs[other].speaker # Last(cost.speakers) THEN 1 ELSE 0),
     multi_unit_turn_transitions |->
         cost.multi_unit_turn_transitions + (IF segs[other].speaker = Last(cost.speakers) THEN 1 ELSE 0)]

\* A PathCost.__add__ on a shallow copy: the copy shares the receiver's
\* speaker list, and the append shows in the receiver
PathCost_add_shallow(segs, cost, other) ==
    [cost EXCEPT !.speakers = Append(@, segs[other].speaker)]

\* PathCost.__add__, the receiver after the call: deepcopy gives the new cost
\* its own speaker list and counters, and only the copy is written to
PathCost_add_receiver(segs, cost, other) == cost

\* The read-only properties of PathCost
num_speakers(cost) == Cardinality(Range(cost.speakers))

num_segments(cost) == Len(cost.speakers)

num_turns(cost) == num_segments(cost) - 1

num_turn_transitions(cost) == cost.turn_transitions

num_multi_turns_transitions(cost) == cost.multi_unit_turn_transitions

\* operator.attrgetter(name)(cost)
attr(cost, name) ==
    CASE name = "duration" -> cost.duration
      [] name = "num_speakers" -> num_speakers(cost)
      [] name = "num_segments" -> num_segments(cost)
      [] name = "num_turns" -> num_turns(cost)
      [] name = "num_turn_transitions" -> num_turn_transitions(cost)
      [] name = "num_multi_turns_transitions" -> num_multi_turns_transitions(cost)

\* attrgetter(*selection_key)(cost): the tuple the costs are sorted by
SortKey(cost, selection_key) == [i \in 1..Len(selection_key) |-> attr(cost, selection_key[i])]

\* Python's order on tuples of equal length: a < b
RECURSIVE TupleLess(_, _, _)
TupleLess(a, b, i) ==
    IF i > Len(a) THEN FALSE
    ELSE IF a[i] # b[i] THEN a[i] < b[i]
    ELSE TupleLess(a, b, i + 1)

\* A sort that puts an item in front of the items sorted so far whose key
\* equals its own
RECURSIVE InsertReverse_unstable(_, _, _, _)
InsertReverse_unstable(order, path_list, selection_key, i) ==
    IF order = <<>> THEN <<i>>
    ELSE IF ~TupleLess(SortKey(path_list[i], selection_key),
                       SortKey(path_list[Head(order)], selection_key), 1)
         THEN <<i>> \o order
         ELSE <<Head(order)>> \o InsertReverse_unstable(Tail(order), path_list, selection_key, i)

\* sorted(..., reverse=True), one item: position i of the input goes into
\* the positions sorted so far, in front of the first one whose key is less
\* than its own.  The sort is stable, reverse=True included: an item stays
\* behind the earlier items whose key equals its own.
RECURSIVE InsertReverse(_, _, _, _)
InsertReverse(order, path_list, selection_key, i) ==
    IF order = <<>> THEN <<i>>
    ELSE IF TupleLess(SortKey(path_list[Head(order)], selection_key),
                      SortKey(path_list[i], selection_key), 1)
         THEN <<i>> \o order
         ELSE <<Head(order)>> \o InsertReverse(Tail(order), path_list, selection_key, i)

\* sorted(path_list, reverse=True, key=attrgetter(*selection_key)), as the
\* positions of the first i items of the input in sorted order
RECURSIVE sorted_reverse_from(_, _, _)
sorted_reverse_from(path_list, selection_key, i) ==
    IF i = 0 THEN <<>>
    ELSE InsertReverse(sorted_reverse_from(path_list, selection_key, i - 1),
                       path_list, selection_key, i)

\* sorted(path_list, reverse=True, key=attrgetter(*selection_key)), as
\* positions of the input
sorted_reverse(path_list, selection_key) ==
    sorted_reverse_from(path_list, selection_key, Len(path_list))

\* defaults.default_path_selection_rules, as the position of its pick:
\* element [0] of the sorted list.  0 on an empty input, where [0] raises
\* IndexError.
selection_index(path_list, selection_key) ==
    IF path_list = <<>> THEN 0
    ELSE sorted_reverse(path_list, selection_key)[1]

\* defaults.default_path_selection_rules
default_path_selection_rules(path_list, selection_key) ==
    path_list[selection_index(path_list, selection_key)]

\* The selection keys a caller passes: total duration, and the pair used
\* in src/egs/example.py.
SelectionKeys == {<<"duration">>, <<"num_turns", "num_multi_turns_transitions">>}

\* ------------------------------------------------------- cost propagation
\* dict lookup in a cost table: the position of key `ancestor`, 0 if absent
KeyIndex(table, ancestor) ==
    IF \E i \in 1..Len(table) : table[i].ancestor = ancestor
    THEN CHOOSE i \in 1..Len(table) : table[i].ancestor = ancestor
    ELSE 0

\* table[ancestor] = (cost, previous): in place for a known key, appended
\* for a new one
SetItem(table, ancestor, cost, previous) ==
    LET k == KeyIndex(table, ancestor)
        item == [ancestor |-> ancestor, cost |-> cost, previous |-> previous]
    IN  IF k = 0 THEN Append(table, item) ELSE [table EXCEPT ![k] = item]

\* A relaxation that stores the ancestor of the path as the previous node
\* of every entry
relax_from_ancestor(g, segs, selection_key, previous_cost, incoming_node, outgoing_node) ==
    LET outgoing_node_cost == PathCost_add(segs, previous_cost, outgoing_node)
        table == g.cost[outgoing_node]
        k == KeyIndex(table, outgoing_node_cost.ancestor)
        keeps_prev ==
            /\ k # 0
            /\ selection_index(<<table[k].cost, outgoing_node_cost>>, selection_key) = 1
    IN  IF keeps_prev
        THEN g
        ELSE [g EXCEPT !.cost[outgoing_node] =
                  SetItem(table, outgoing_node_cost.ancestor, outgoing_node_cost,
                          outgoing_node_cost.ancestor)]

\* _compute_cost, lines 322-333: fold outgoing_node into previous_cost and
\* keep the better of it and the cost stored at outgoing_node for the same
\* ancestor.  `current_path_cost == prev_path_cost` compares objects, so it
\* holds exactly when the selection rule returns its first argument.
relax(g, segs, selection_key, previous_cost, incoming_node, outgoing_node) ==
    LET outgoing_node_cost == PathCost_add(segs, previous_cost, outgoing_node)
        table == g.cost[outgoing_node]
        k == KeyIndex(table, outgoing_node_cost.ancestor)
        keeps_prev ==
            /\ k # 0
            /\ selection_index(<<table[k].cost, outgoing_node_cost>>, selection_key) = 1
    IN  IF keeps_prev
        THEN g
        ELSE [g EXCEPT !.cost[outgoing_node] =
                  SetItem(table, outgoing_node_cost.ancestor, outgoing_node_cost, incoming_node)]

\* _compute_cost, the loop of line 320 over previous_costs.  When the table
\* of current_node was not empty at line 309, previous_costs is a live view
\* of it and is read again for every outgoing node; otherwise it is the
\* one-element list holding the seed cost.
RECURSIVE RelaxAll(_, _, _, _, _, _, _, _)
RelaxAll(g, segs, selection_key, node_pair_cost, live, current_node, outgoing_node, k) ==
    IF live
    THEN IF k > Len(g.cost[current_node]) THEN g
         ELSE RelaxAll(relax(g, segs, selection_key, g.cost[current_node][k].cost,
                             current_node, outgoing_node),
                       segs, selection_key, node_pair_cost, live, current_node, outgoing_node, k + 1)
    ELSE relax(g, segs, selection_key, node_pair_cost, current_node, outgoing_node)

\* A loop over the outgoing nodes that pops them off the successor list of
\* the current node as it goes
RECURSIVE Outgoing_popped(_, _, _, _, _, _, _)
Outgoing_popped(g, segs, selection_key, node_pair_cost, live, current_node, j) ==
    IF g.next[current_node] = <<>> THEN g
    ELSE Outgoing_popped([RelaxAll(g, segs, selection_key, node_pair_cost, live, current_node,
                                   g.next[current_node][1], 1)
                             EXCEPT !.next[current_node] = Tail(@)],
                         segs, selection_key, node_pair_cost, live, current_node, j)

\* _compute_cost, the loop of line 316 over the outgoing nodes
RECURSIVE Outgoing(_, _, _, _, _, _, _)
Outgoing(g, segs, selection_key, node_pair_cost, live, current_node, j) ==
    IF j > Len(g.next[current_node]) THEN g
    ELSE Outgoing(RelaxAll(g, segs, selection_key, node_pair_cost, live, current_node,
                           g.next[current_node][j], 1),
                  segs, selection_key, node_pair_cost, live, current_node, j + 1)

\* _compute_cost, the while loop: pop the first pair, skip it when visited
RECURSIVE Propagate(_, _, _, _, _, _)
Propagate(g, segs, selection_key, node_pair_cost, next_nodes_to_visit, visited_pairs) ==
    IF next_nodes_to_visit = <<>> THEN g
    ELSE LET node_pair == Head(next_nodes_to_visit)
             current_node == node_pair[2]
         IN  IF node_pair \in visited_pairs
             THEN Propagate(g, segs, selection_key, node_pair_cost,
                            Tail(next_nodes_to_visit), visited_pairs)
             ELSE Propagate(Outgoing(g, segs, selection_key, node_pair_cost,
                                     g.cost[current_node] # <<>>, current_node, 1),
                            segs, selection_key, node_pair_cost,
                            Tail(next_nodes_to_visit) \o NextPairs(g, current_node),
                            visited_pairs \cup {node_pair})

\* A _compute_cost that stores the seed cost in the table of the start node
\* before it propagates
compute_cost_seeded(g, segs, start_node, selection_key) ==
    Propagate([g EXCEPT !.cost[start_node] =
                  SetItem(@, start_node, PathCost(segs, start_node), None)],
              segs, selection_key, PathCost(segs, start_node), <<<<None, start_node>>>>, {})

\* DirectedGraph._compute_cost
compute_cost(g, segs, start_node, selection_key) ==
    Propagate(g, segs, selection_key, PathCost(segs, start_node), <<<<None, start_node>>>>, {})

\* DirectedGraph.compute_costs: one _compute_cost per start node, in the
\* order `start_order` in which the set start_nodes is iterated
RECURSIVE compute_costs(_, _, _, _)
compute_costs(g, segs, start_order, selection_key) ==
    IF start_order = <<>> THEN g
    ELSE compute_costs(compute_cost(g, segs, Head(start_order), selection_key),
                       segs, Tail(start_order), selection_key)

\* ----------------------------------------------------------- best path
\* best_path, lines 370-373: every (cost, end node, previous node) stored
\* at an end node, end nodes in the order `end_order`.  The dict is keyed
\* by cost objects, which are all distinct.
RECURSIVE path_cost_temp(_, _)
path_cost_temp(g, end_order) ==
    IF end_order = <<>> THEN <<>>
    ELSE [k \in 1..Len(g.cost[Head(end_order)]) |->
             [cost |-> g.cost[Head(end_order)][k].cost,
              end_node |-> Head(end_order),
              previous_node |-> g.cost[Head(end_order)][k].previous]]
         \o path_cost_temp(g, Tail(end_order))

\* best_path, lines 381-384: follow the previous-node pointers stored under
\* target_start_node until a node with an empty cost table.  The walk only
\* reads the tables, so coming back to a node means it never ends.
RECURSIVE Backtrack(_, _, _)
Backtrack(g, target_start_node, best_path) ==
    LET previous_node == Last(best_path)
        table == g.cost[previous_node]
        k == KeyIndex(table, target_start_node)
    IN  IF table = <<>> THEN [outcome |-> "returned", best_path |-> best_path]
        ELSE IF k = 0 THEN [outcome |-> "KeyError", best_path |-> best_path]
        ELSE IF InSeq(previous_node, Front(best_path))
             THEN [outcome |-> "never returns", best_path |-> best_path]
        ELSE Backtrack(g, target_start_node, Append(best_path, table[k].previous))

\* What a call that did not return a path leaves as its result
NoPath(outcome) == [outcome |-> outcome, path |-> <<>>, cost |-> None]

\* DirectedGraph.best_path, lines 367-386, on the graph compute_costs left
select_path(g, end_order, selection_key) ==
    LET temp == path_cost_temp(g, end_order)
        costs == [k \in 1..Len(temp) |-> temp[k].cost]
        b == selection_index(costs, selection_key)
    IN  IF b = 0 THEN NoPath("IndexError")
        ELSE LET walk == Backtrack(g, temp[b].cost.ancestor,
                                   <<temp[b].end_node, temp[b].previous_node>>)
             IN  IF walk.outcome # "returned" THEN NoPath(walk.outcome)
                 ELSE [outcome |-> "returned",
                       path |-> pairwise(Reverse(walk.best_path)),
                       cost |-> temp[b].cost]

\* DirectedGraph.best_path: the graph with the cost tables compute_costs
\* filled, and what the call returns or raises
best_path(g, segs, start_order, end_order, selection_key) ==
    LET g2 == compute_costs(g, segs, start_order, selection_key)
    IN  [graph |-> g2, result |-> select_path(g2, end_order, selection_key)]

\* ------------------------------------------------------------ all paths
\* A get_paths that follows each successor once, however many edges lead
\* to it
RECURSIVE PathsLoop_once(_, _, _, _)
PathsLoop_once(g, end_node, queue, paths) ==
    IF queue = <<>> THEN paths
    ELSE LET tmp_path == Last(queue)
             last_node == Last(tmp_path)
             nxt == g.next[last_node]
             kept == SelectSeq([i \in 1..Len(nxt) |-> i],
                               LAMBDA i : /\ ~InSeq(nxt[i], tmp_path)
                                          /\ \A j \in 1..(i - 1) : nxt[j] # nxt[i])
             links == [i \in 1..Len(kept) |-> nxt[kept[i]]]
         IN  PathsLoop_once(g, end_node,
                            Front(queue) \o [i \in 1..Len(links) |-> Append(tmp_path, links[i])],
                            IF last_node = end_node THEN Append(paths, tmp_path) ELSE paths)

\* DirectedGraph.get_paths: the stack of partial paths, popped from the end
RECURSIVE PathsLoop(_, _, _, _)
PathsLoop(g, end_node, queue, paths) ==
    IF queue = <<>> THEN paths
    ELSE LET tmp_path == Last(queue)
             last_node == Last(tmp_path)
             links == SelectSeq(g.next[last_node], LAMBDA n : ~InSeq(n, tmp_path))
         IN  PathsLoop(g, end_node,
                       Front(queue) \o [i \in 1..Len(links) |-> Append(tmp_path, links[i])],
                       IF last_node = end_node THEN Append(paths, tmp_path) ELSE paths)

\* DirectedGraph.get_paths, each path as its node sequence
get_paths(g, start_node, end_node) == PathsLoop(g, end_node, <<<<start_node>>>>, <<>>)

\* DirectedGraph.get_all_paths, lines 238-240: the loop over the end nodes
\* for one start node
RECURSIVE all_paths_to(_, _, _)
all_paths_to(g, start_node, end_order) ==
    IF end_order = <<>> THEN <<>>
    ELSE get_paths(g, start_node, Head(end_order)) \o all_paths_to(g, start_node, Tail(end_order))

\* DirectedGraph.get_all_paths, the list returned when the sets start_nodes
\* and end_nodes are iterated in the orders given
RECURSIVE all_paths_from(_, _, _)
all_paths_from(g, start_order, end_order) ==
    IF start_order = <<>> THEN <<>>
    ELSE all_paths_to(g, Head(start_order), end_order)
         \o all_paths_from(g, Tail(start_order), end_order)

\* DirectedGraph.get_all_paths, as the set of the node sequences found
get_all_paths(g) ==
    UNION {Range(get_paths(g, s, e)) : s \in start_nodes(g), e \in end_nodes(g)}

\* ------------------------------------------------- graph-theoretic notions
\* (used to state the properties; the program does not compute them)
NodeSet(g) == Range(g.nodes)

EdgeSet(g) == Range(Edges(g))

Successors(g, S) == UNION {Range(g.next[n]) : n \in S}

RECURSIVE Closure(_, _)
Closure(g, S) ==
    LET T == S \cup Successors(g, S)
    IN  IF T = S THEN S ELSE Closure(g, T)

\* The nodes reached from n by one edge or more
Descendants(g, n) == Closure(g, Successors(g, {n}))

Acyclic(g) == \A n \in NodeSet(g) : n \notin Descendants(g, n)

RECURSIVE WeakClosure(_, _)
WeakClosure(g, S) ==
    LET T == S \cup Successors(g, S) \cup {n \in NodeSet(g) : Range(g.next[n]) \cap S # {}}
    IN  IF T = S THEN S ELSE WeakClosure(g, T)

\* The weakly-connected components of the raw adjacency, as node sets
WeakComponents(g) == {WeakClosure(g, {n}) : n \in NodeSet(g)}

\* The cost of a path given as its node sequence, folded from scratch
RECURSIVE FoldFrom(_, _, _, _)
FoldFrom(segs, cost, path, i) ==
    IF i > Len(path) THEN cost
    ELSE FoldFrom(segs, PathCost_add(segs, cost, path[i]), path, i + 1)

FoldPath(segs, path) == FoldFrom(segs, PathCost(segs, path[1]), path, 2)

\* The node sequence of a sequence of chained edges
PathNodes(edges) == <<edges[1][1]>> \o [i \in 1..Len(edges) |-> edges[i][2]]

\* ------------------------------------------------------------ the state
VARIABLES
    segments,     \* the segment table: node -> Segment
    graph,        \* the interaction graph under construction
    called,       \* whether get_connected_components has returned
    components,   \* the list of graphs it returned
    calls,        \* the compute_costs and best_path calls made so far, with
                  \* what each returned or raised
    frame         \* the local variables of the call that is running, when
                  \* a call is followed statement by statement

vars == <<segments, graph, called, components, calls, frame>>

\* No call is running
NoFrame == [pc |-> "idle"]

Init ==
    /\ segments \in SegmentTables
    /\ \E rules \in TransitionRules : graph = DirectedGraph(rules)
    /\ called = FALSE
    /\ components = <<>>
    /\ calls = <<>>
    /\ frame = NoFrame

\* graph.add_edge(node1, node2) with a node not yet in the graph being the
\* next unused name
AddAnyEdge ==
    \E node1 \in 1..Min2(num_nodes(graph) + 1, NumNodes) :
       \E node2 \in 1..Min2(num_nodes(add_edge(graph, node1, node1)) + 1, NumNodes) :
          graph' = add_edge(graph, node1, node2)

\* graph.add_edge(node1, node2), any two nodes
AddEdge ==
    /\ ~called
    /\ num_edges(graph) < MaxEdges
    /\ AddAnyEdge
    /\ UNCHANGED <<segments, called, components, calls, frame>>

\* graph.add_edge(node1, node2) as Conversation._segments_to_graph calls
\* it: no pair twice, and no cycle (an edge leads to a later onset)
AddForwardEdge ==
    /\ ~called
    /\ num_edges(graph) < MaxDagEdges
    /\ AddAnyEdge
    /\ Acyclic(graph')
    /\ Cardinality(EdgeSet(graph')) = num_edges(graph')
    /\ UNCHANGED <<segments, called, components, calls, frame>>

\* components = graph.get_connected_components(**kwargs)
GetConnectedComponents ==
    /\ ~called
    /\ \E kw \in Kwargs : components' = get_connected_components(graph, segments, kw)
    /\ called' = TRUE
    /\ UNCHANGED <<segments, graph, calls, frame>>

\* components[i].compute_costs(PathCost, default_path_selection_rules,
\* selection_key=...)
ComputeCosts ==
    /\ called
    /\ Len(calls) < MaxCalls
    /\ \E i \in 1..Len(components), selection_key \in SelectionKeys :
         \E start_order \in Orders(start_nodes(components[i])) :
            /\ components' = [components EXCEPT
                   ![i] = compute_costs(@, segments, start_order, selection_key)]
            /\ calls' = Append(calls, [op |-> "compute_costs", component |-> i,
                                       selection_key |-> selection_key,
                                       outcome |-> "returned", path |-> <<>>, cost |-> None])
    /\ UNCHANGED <<segments, graph, called, frame>>

\* A best_path on a component whose nodes keep their cost tables in the
\* node objects, which the graph and all its components share
BestPathOf_shared(i) ==
    /\ \E selection_key \in SelectionKeys :
         \E start_order \in Orders(start_nodes(components[i])),
            end_order \in Orders(end_nodes(components[i])) :
            LET r == best_path(components[i], segments, start_order, end_order, selection_key)
            IN  /\ components' = [j \in 1..Len(components) |->
                                     [components[j] EXCEPT !.cost = r.graph.cost]]
                /\ graph' = [graph EXCEPT !.cost = r.graph.cost]
                /\ calls' = Append(calls, [op |-> "best_path", component |-> i,
                                           selection_key |-> selection_key,
                                           outcome |-> r.result.outcome,
                                           path |-> r.result.path,
                                           cost |-> r.result.cost])
    /\ UNCHANGED <<segments, called, frame>>

\* components[i].best_path(PathCost, default_path_selection_rules,
\* selection_key=...)
BestPathOf(i) ==
    /\ \E selection_key \in SelectionKeys :
         \E start_order \in Orders(start_nodes(components[i])),
            end_order \in Orders(end_nodes(components[i])) :
            LET r == best_path(components[i], segments, start_order, end_order, selection_key)
            IN  /\ components' = [components EXCEPT ![i] = r.graph]
                /\ calls' = Append(calls, [op |-> "best_path", component |-> i,
                                           selection_key |-> selection_key,
                                           outcome |-> r.result.outcome,
                                           path |-> r.result.path,
                                           cost |-> r.result.cost])
    /\ UNCHANGED <<segments, graph, called, frame>>

\* best_path on any component, called again or not
BestPath ==
    /\ called
    /\ Len(calls) < MaxCalls
    /\ \E i \in 1..Len(components) : BestPathOf(i)

\* best_path as Conversation.get_interactional_sequences calls it: once on
\* each component, in the order of the list
BestPathInTurn ==
    /\ called
    /\ Len(calls) < Len(components)
    /\ BestPathOf(Len(calls) + 1)

Next == AddEdge \/ GetConnectedComponents \/ ComputeCosts \/ BestPath

\* Any graph of at most MaxEdges edges, under any of the policies
Spec == Init /\ [][Next]_vars

InitDag ==
    /\ Init
    /\ graph.transition_rules = "always_true"

NextDag == AddForwardEdge \/ GetConnectedComponents \/ BestPathInTurn

\* The acyclic graphs of at most MaxDagEdges edges, under the default policy
SpecDag == InitDag /\ [][NextDag]_vars

\* --------------------------------------------- best_path, called twice
\* What a best_path call leaves in the log
BestPathCall(i, selection_key, result) ==
    [op |-> "best_path", component |-> i, selection_key |-> selection_key,
     outcome |-> result.outcome, path |-> result.path, cost |-> result.cost]

\* p1 = components[i].best_path(...); p2 = components[i].best_path(...) with
\* the same arguments, on each component in the order of the list.  The two
\* calls iterate the same sets of the same node objects, hence in the same
\* order.
BestPathTwice ==
    /\ called
    /\ Len(calls) < 2 * Len(components)
    /\ LET i == (Len(calls) \div 2) + 1
       IN  \E selection_key \in SelectionKeys :
             \E start_order \in Orders(start_nodes(components[i])),
                end_order \in Orders(end_nodes(components[i])) :
                LET r1 == best_path(components[i], segments, start_order, end_order, selection_key)
                    r2 == best_path(r1.graph, segments, start_order, end_order, selection_key)
                IN  /\ components' = [components EXCEPT ![i] = r2.graph]
                    /\ calls' = calls \o <<BestPathCall(i, selection_key, r1.result),
                                           BestPathCall(i, selection_key, r2.result)>>
    /\ UNCHANGED <<segments, graph, called, frame>>

NextRepeat == AddForwardEdge \/ GetConnectedComponents \/ BestPathTwice

\* The acyclic graphs of at most MaxDagEdges edges, best_path called twice
\* in a row on each component
SpecRepeat == InitDag /\ [][NextRepeat]_vars

\* ------------------------------------- graphs built row by row, then costs
\* The source of the last edge added, when the edges were added row by row
LastRow(g) == CHOOSE u \in NodeSet(g) :
                 g.next[u] # <<>> /\ \A n \in NodeSet(g) : g.next[n] # <<>> => n <= u

\* graph.add_edge(parent, connected_node) as Conversation._segments_to_graph
\* calls it on rows sorted by onset (nodes are named by row): the rows are
\* taken in order and, for each, its connected rows, all of them later, in
\* order
AddRowEdge ==
    /\ ~called
    /\ num_edges(graph) < MaxRowEdges
    /\ \E node1, node2 \in Node :
          /\ node1 < node2
          /\ IF Edges(graph) = <<>> THEN TRUE
             ELSE IF LastRow(graph) = node1 THEN Last(graph.next[node1]) < node2
             ELSE LastRow(graph) < node1
          /\ graph' = add_edge(graph, node1, node2)
    /\ UNCHANGED <<segments, called, components, calls, frame>>

\* compute_costs on each component, in the order of the list
ComputeCostsInTurn ==
    /\ called
    /\ Len(calls) < Len(components)
    /\ LET i == Len(calls) + 1
       IN  \E selection_key \in SelectionKeys :
             \E start_order \in Orders(start_nodes(components[i])) :
                /\ components' = [components EXCEPT
                       ![i] = compute_costs(@, segments, start_order, selection_key)]
                /\ calls' = Append(calls, [op |-> "compute_costs", component |-> i,
                                           selection_key |-> selection_key,
                                           outcome |-> "returned", path |-> <<>>, cost |-> None])
    /\ UNCHANGED <<segments, graph, called, frame>>

NextRows == AddRowEdge \/ GetConnectedComponents \/ ComputeCostsInTurn

\* The graphs of at most MaxRowEdges edges built row by row, under the
\* default policy, with the costs computed on each component
SpecRows == InitDag /\ [][NextRows]_vars

\* ------------------------------------------------- the cost objects alone
\* A cost object made by a call: the constructor (receiver 0) or receiver +
\* other; `before` and `after` are the receiver around the call, `cost` is
\* the object made, as it is now
CostCall(op, receiver, other, before, after, cost) ==
    [op |-> op, receiver |-> receiver, other |-> other,
     before |-> before, after |-> after, cost |-> cost]

\* PathCost(segment)
NewPathCost ==
    /\ Len(calls) < MaxCosts
    /\ \E segment \in Node :
          calls' = Append(calls, CostCall("__init__", 0, segment, None, None,
                                          PathCost(segments, segment)))
    /\ UNCHANGED <<segments, graph, called, components, frame>>

\* calls[k].cost + other, on any cost object made so far
Combine ==
    /\ Len(calls) < MaxCosts
    /\ \E k \in 1..Len(calls), other \in Node :
          LET before == calls[k].cost
              after == PathCost_add_receiver(segments, before, other)
          IN  calls' = Append([calls EXCEPT ![k].cost = after],
                              CostCall("__add__", k, other, before, after,
                                       PathCost_add(segments, before, other)))
    /\ UNCHANGED <<segments, graph, called, components, frame>>

NextCost == NewPathCost \/ Combine

\* Cost objects made and combined, in any order
SpecCost == InitDag /\ [][NextCost]_vars

\* ------------------------------------------------ installing the policy
\* The values a caller may pass as transition rules: the callables, a value
\* that is not callable (42), and None
PolicyValues == TransitionRules \cup {"not_callable", "None"}

\* callable(value)
callable(value) == value \in TransitionRules

\* The setter of transition_rules: the assert tests self.transition_rules,
\* the policy installed so far, and not the value being assigned
set_transition_rules(g, value) ==
    IF callable(g.transition_rules)
    THEN [outcome |-> "returned", graph |-> [g EXCEPT !.transition_rules = value]]
    ELSE [outcome |-> "AssertionError", graph |-> g]

\* DirectedGraph(transition_rules=value): the default lambda, replaced
\* through the setter when the value is truthy
DirectedGraph_init(value) ==
    IF value = "None" THEN DirectedGraph("always_true")
    ELSE set_transition_rules(DirectedGraph("always_true"), value).graph

\* get_connected_components with whatever is installed: a value that is not
\* callable raises TypeError at the first pair the traversal pops
get_connected_components_call(g, segs, kw) ==
    IF ~callable(g.transition_rules) /\ Edges(g) # <<>>
    THEN [outcome |-> "TypeError", components |-> <<>>]
    ELSE [outcome |-> "returned", components |-> get_connected_components(g, segs, kw)]

InitPolicy ==
    /\ segments \in SegmentTables
    /\ \E value \in PolicyValues : graph = DirectedGraph_init(value)
    /\ called = FALSE
    /\ components = <<>>
    /\ calls = <<>>
    /\ frame = NoFrame

\* The assignments made through the setter so far
Assignments == {k \in 1..Len(calls) : calls[k].op = "transition_rules"}

\* graph.transition_rules = value
SetTransitionRules ==
    /\ ~called
    /\ Cardinality(Assignments) < MaxCalls
    /\ \E value \in PolicyValues :
          LET r == set_transition_rules(graph, value)
          IN  /\ graph' = r.graph
              /\ calls' = Append(calls, [op |-> "transition_rules", value |-> value,
                                         outcome |-> r.outcome])
    /\ UNCHANGED <<segments, called, components, frame>>

\* graph.get_connected_components(**kwargs), with what it returns or raises
GetConnectedComponentsCall ==
    /\ ~called
    /\ \E kw \in Kwargs :
          LET r == get_connected_components_call(graph, segments, kw)
          IN  /\ components' = r.components
              /\ calls' = Append(calls, [op |-> "get_connected_components",
                                         value |-> graph.transition_rules,
                                         outcome |-> r.outcome])
    /\ called' = TRUE
    /\ UNCHANGED <<segments, graph, frame>>

NextPolicy == AddEdge \/ SetTransitionRules \/ GetConnectedComponentsCall

\* A graph constructed with any value as its policy, the policy assigned
\* again, edges added and the components extracted
SpecPolicy == InitPolicy /\ [][NextPolicy]_vars

\* ------------------------------------------- the graph store, call by call
\* Reading the property start_nodes: zip(*list(self)) yields nothing for a
\* graph without edges, and unpacking it into two names raises ValueError.
get_start_nodes(g) ==
    IF Edges(g) = <<>> THEN [outcome |-> "ValueError", nodes |-> {}]
    ELSE [outcome |-> "returned", nodes |-> start_nodes(g)]

\* Reading the property end_nodes
get_end_nodes(g) ==
    IF Edges(g) = <<>> THEN [outcome |-> "ValueError", nodes |-> {}]
    ELSE [outcome |-> "returned", nodes |-> end_nodes(g)]

\* A call on the graph and what it returned or raised
StoreCall(op, node1, node2, outcome, nodes) ==
    [op |-> op, node1 |-> node1, node2 |-> node2, outcome |-> outcome, nodes |-> nodes]

\* The calls of the log other than add_edge
Reads == {k \in 1..Len(calls) : calls[k].op # "add_edge"}

\* graph.add_edge(node1, node2), logged
AddEdgeCall ==
    /\ ~called
    /\ num_edges(graph) < MaxEdges
    /\ \E node1 \in 1..Min2(num_nodes(graph) + 1, NumNodes) :
          \E node2 \in 1..Min2(num_nodes(add_edge(graph, node1, node1)) + 1, NumNodes) :
             /\ graph' = add_edge(graph, node1, node2)
             /\ calls' = Append(calls, StoreCall("add_edge", node1, node2, "returned", {}))
    /\ UNCHANGED <<segments, called, components, frame>>

\* graph.start_nodes
StartNodes ==
    /\ Cardinality(Reads) < MaxCalls
    /\ LET r == get_start_nodes(graph)
       IN  calls' = Append(calls, StoreCall("start_nodes", None, None, r.outcome, r.nodes))
    /\ UNCHANGED <<segments, graph, called, components, frame>>

\* graph.end_nodes
EndNodes ==
    /\ Cardinality(Reads) < MaxCalls
    /\ LET r == get_end_nodes(graph)
       IN  calls' = Append(calls, StoreCall("end_nodes", None, None, r.outcome, r.nodes))
    /\ UNCHANGED <<segments, graph, called, components, frame>>

NextStore == AddEdgeCall \/ StartNodes \/ EndNodes

\* The graph store alone: edges added and properties read, in any order
SpecStore == Init /\ [][NextStore]_vars

\* ------------------------- get_connected_components, statement by statement
\* A call of the transition policy and what it answered
PolicyCall(candidate_node, connected_node, verdict) ==
    [candidate_node |-> candidate_node, connected_node |-> connected_node, verdict |-> verdict]

\* The locals of get_connected_components at line 183: nothing visited, no
\* chain, the loop over the adjacency keys not started.  `evaluated` is the
\* list of the calls of the policy made so far.
ComponentsFrame(kw) ==
    [pc |-> "for", kw |-> kw, seed |-> 0,
     next_nodes_to_visit |-> <<>>, visited_pairs |-> {}, transition |-> <<>>,
     chain_sequences |-> <<>>, evaluated |-> <<>>]

\* A loop body that marks a pair visited only when the policy accepts it
while_body_accepted(g, segs, f) ==
    LET node_pair == Last(f.next_nodes_to_visit)
        rest == Front(f.next_nodes_to_visit)
        verdict == apply_transition_rules(g, segs, node_pair[1], node_pair[2], f.kw)
    IN  IF node_pair \in f.visited_pairs
        THEN [f EXCEPT !.next_nodes_to_visit = rest]
        ELSE IF verdict
             THEN [f EXCEPT !.next_nodes_to_visit = rest \o NextPairs(g, node_pair[2]),
                            !.visited_pairs = @ \cup {node_pair},
                            !.transition = Append(@, node_pair),
                            !.evaluated = Append(@, PolicyCall(node_pair[1], node_pair[2], TRUE))]
             ELSE [f EXCEPT !.next_nodes_to_visit = rest,
                            !.evaluated = Append(@, PolicyCall(node_pair[1], node_pair[2], FALSE))]

\* A loop body that reads the last pair of the work-list and leaves it there
\* when it is already visited
while_body_peek(g, segs, f) ==
    LET node_pair == Last(f.next_nodes_to_visit)
        rest == Front(f.next_nodes_to_visit)
        verdict == apply_transition_rules(g, segs, node_pair[1], node_pair[2], f.kw)
    IN  IF node_pair \in f.visited_pairs
        THEN f
        ELSE IF verdict
             THEN [f EXCEPT !.next_nodes_to_visit = rest \o NextPairs(g, node_pair[2]),
                            !.visited_pairs = @ \cup {node_pair},
                            !.transition = Append(@, node_pair),
                            !.evaluated = Append(@, PolicyCall(node_pair[1], node_pair[2], TRUE))]
             ELSE [f EXCEPT !.next_nodes_to_visit = rest,
                            !.visited_pairs = @ \cup {node_pair},
                            !.evaluated = Append(@, PolicyCall(node_pair[1], node_pair[2], FALSE))]

\* get_connected_components, lines 193-205: one turn of the while loop
while_body(g, segs, f) ==
    LET node_pair == Last(f.next_nodes_to_visit)
        rest == Front(f.next_nodes_to_visit)
        verdict == apply_transition_rules(g, segs, node_pair[1], node_pair[2], f.kw)
    IN  IF node_pair \in f.visited_pairs
        THEN [f EXCEPT !.next_nodes_to_visit = rest]
        ELSE IF verdict
             THEN [f EXCEPT !.next_nodes_to_visit = rest \o NextPairs(g, node_pair[2]),
                            !.visited_pairs = @ \cup {node_pair},
                            !.transition = Append(@, node_pair),
                            !.evaluated = Append(@, PolicyCall(node_pair[1], node_pair[2], TRUE))]
             ELSE [f EXCEPT !.next_nodes_to_visit = rest,
                            !.visited_pairs = @ \cup {node_pair},
                            !.evaluated = Append(@, PolicyCall(node_pair[1], node_pair[2], FALSE))]

\* graph.add_edge(node1, node2), between two calls
AddEdgeIdle ==
    /\ frame.pc = "idle"
    /\ AddEdge

\* graph.get_connected_components(**kwargs) is entered
EnterComponents ==
    /\ ~called
    /\ frame.pc = "idle"
    /\ \E kw \in Kwargs : frame' = ComponentsFrame(kw)
    /\ UNCHANGED <<segments, graph, called, components, calls>>

\* Lines 184-191: the next adjacency key becomes the seed
NextSeed ==
    /\ frame.pc = "for"
    /\ frame.seed < Len(graph.nodes)
    /\ frame' = [frame EXCEPT !.pc = "while",
                              !.seed = @ + 1,
                              !.next_nodes_to_visit = NextPairs(graph, graph.nodes[frame.seed + 1]),
                              !.transition = <<>>]
    /\ UNCHANGED <<segments, graph, called, components, calls>>

\* Lines 192-205: a pair is popped
PopPair ==
    /\ frame.pc = "while"
    /\ frame.next_nodes_to_visit # <<>>
    /\ frame' = while_body(graph, segments, frame)
    /\ UNCHANGED <<segments, graph, called, components, calls>>

\* Lines 207-208: the work-list is empty, the chain of the seed is kept
EndSeed ==
    /\ frame.pc = "while"
    /\ frame.next_nodes_to_visit = <<>>
    /\ frame' = [frame EXCEPT !.pc = "for",
                              !.chain_sequences =
                                  IF frame.transition # <<>> THEN Append(@, frame.transition) ELSE @]
    /\ UNCHANGED <<segments, graph, called, components, calls>>

\* Line 184, the keys exhausted: every key was a seed, and line 210 is
\* reached
EndSeeds ==
    /\ frame.pc = "for"
    /\ frame.seed = Len(graph.nodes)
    /\ frame' = [frame EXCEPT !.pc = "merge"]
    /\ UNCHANGED <<segments, graph, called, components, calls>>

\* Lines 210-228: the chains are merged, turned into graphs and returned
ReturnComponents ==
    /\ frame.pc = "merge"
    /\ LET m == MergeOuter(frame.chain_sequences, {}, 1)
           chains == Kept(m.chain_sequences, m.to_skip, 1)
       IN  components' = [i \in 1..Len(chains) |-> from_tuple_list(chains[i])]
    /\ called' = TRUE
    /\ frame' = [frame EXCEPT !.pc = "returned"]
    /\ UNCHANGED <<segments, graph, calls>>

\* A statement of the two nested loops of lines 184-208
TraversalStep == NextSeed \/ PopPair \/ EndSeed \/ EndSeeds

NextTraversal ==
    AddEdgeIdle \/ EnterComponents \/ NextSeed \/ PopPair \/ EndSeed \/ EndSeeds \/ ReturnComponents

\* Edges added, then one get_connected_components call followed statement
\* by statement
SpecTraversal == Init /\ [][NextTraversal]_vars

\* The same; the program is single-threaded, so a loop that can take its
\* next statement takes it
SpecTermination == Init /\ [][NextTraversal]_vars /\ WF_vars(TraversalStep)

\* The call is in the loops of lines 184-208
InTraversal == frame.pc \in {"for", "while"}

\* The statements put together make the call: what is returned is what
\* get_connected_components computes
StepwiseAgrees ==
    frame.pc = "returned" => components = get_connected_components(graph, segments, frame.kw)

\* ------------------------------------ the components, with the keywords
\* graph.add_edge(node1, node2), any two nodes, up to MaxFilterEdges edges
AddFilterEdge ==
    /\ ~called
    /\ num_edges(graph) < MaxFilterEdges
    /\ AddAnyEdge
    /\ UNCHANGED <<segments, called, components, calls, frame>>

\* components = graph.get_connected_components(**kwargs), the keyword
\* arguments logged
GetConnectedComponentsWith ==
    /\ ~called
    /\ \E kw \in Kwargs :
          /\ components' = get_connected_components(graph, segments, kw)
          /\ calls' = Append(calls, [op |-> "get_connected_components", kw |-> kw])
    /\ called' = TRUE
    /\ UNCHANGED <<segments, graph, frame>>

NextFilter == AddFilterEdge \/ GetConnectedComponentsWith

\* Any graph of at most MaxFilterEdges edges, under any of the policies, and
\* its components
SpecFilter == Init /\ [][NextFilter]_vars

\* ------------------------------------------- from a segment table to a graph
Max2(a, b) == IF a > b THEN a ELSE b

\* utils.overlap: the length of the intersection of two intervals
overlap(onset, offset, target_onset, target_offset) ==
    Max2(0, Min2(offset, target_offset) - Max2(onset, target_onset))

\* utils.overlaps: bool(overlap(...))
overlaps(onset, offset, target_onset, target_offset) ==
    overlap(onset, offset, target_onset, target_offset) # 0

\* The speakers, in the order groupby('speaker_type') yields its groups
\* (sorted group keys)
SpeakerOrder == <<"CHI", "FEM", "MAL">>

\* A row filter that looks at the same onset and later: >= for >
connects_from_same_onset(segs, t_row, c_row, allowed_gap) ==
    /\ overlaps(segs[c_row].onset, segs[c_row].offset,
                segs[t_row].onset, segs[t_row].offset + allowed_gap)
    /\ segs[c_row].onset >= segs[t_row].onset
    /\ t_row # c_row

\* _find_connected_nodes, lines 601-606: row c_row overlaps row t_row
\* stretched by the allowed gap, starts after it and is another row
connects(segs, t_row, c_row, allowed_gap) ==
    /\ overlaps(segs[c_row].onset, segs[c_row].offset,
                segs[t_row].onset, segs[t_row].offset + allowed_gap)
    /\ segs[c_row].onset > segs[t_row].onset
    /\ t_row # c_row

\* _find_connected_nodes, lines 597-607: the rows connected to t_row, in
\* the order of the table
overlapping_rows(segs, t_row, allowed_gap) ==
    SelectSeq([c_row \in 1..Len(segs) |-> c_row],
              LAMBDA c_row : connects(segs, t_row, c_row, allowed_gap))

\* _find_connected_nodes, lines 613-620: of the rows of one speaker, one
\* with the smallest onset is kept; sort_values does not say which of two
\* rows with the same onset comes first, so each of them may be kept.  The
\* groups come in the order of SpeakerOrder.
RECURSIVE first_per_speaker(_, _, _)
first_per_speaker(segs, rows, i) ==
    IF i > Len(SpeakerOrder) THEN {<<>>}
    ELSE LET group == {r \in Range(rows) : segs[r].speaker = SpeakerOrder[i]}
             heads == {r \in group : \A q \in group : segs[r].onset <= segs[q].onset}
             rest == first_per_speaker(segs, rows, i + 1)
         IN  IF group = {} THEN rest
             ELSE {<<r>> \o l : r \in heads, l \in rest}

\* _find_connected_nodes, one row: the lists its column connected_nodes
\* may hold
connected_nodes_of(segs, t_row, allowed_gap, allow_segment_jump) ==
    IF allow_segment_jump THEN {overlapping_rows(segs, t_row, allowed_gap)}
    ELSE first_per_speaker(segs, overlapping_rows(segs, t_row, allowed_gap), 1)

\* Conversation._find_connected_nodes: the columns connected_nodes it may
\* produce, each a list of row lists
RECURSIVE find_connected_nodes_from(_, _, _, _)
find_connected_nodes_from(segs, allowed_gap, allow_segment_jump, t_row) ==
    IF t_row > Len(segs) THEN {<<>>}
    ELSE {<<l>> \o column :
             l \in connected_nodes_of(segs, t_row, allowed_gap, allow_segment_jump),
             column \in find_connected_nodes_from(segs, allowed_gap, allow_segment_jump, t_row + 1)}

find_connected_nodes(segs, allowed_gap, allow_segment_jump) ==
    find_connected_nodes_from(segs, allowed_gap, allow_segment_jump, 1)

\* Conversation._segments_to_graph, the inner loop: one add_edge per
\* connected node of the row
RECURSIVE add_row_edges(_, _, _, _)
add_row_edges(g, parent, row_connected_nodes, i) ==
    IF i > Len(row_connected_nodes) THEN g
    ELSE add_row_edges(add_edge(g, parent, row_connected_nodes[i]), parent,
                       row_connected_nodes, i + 1)

\* Conversation._segments_to_graph, the loop over the rows
RECURSIVE segments_to_graph_from(_, _, _)
segments_to_graph_from(g, connected_nodes, row) ==
    IF row > Len(connected_nodes) THEN g
    ELSE segments_to_graph_from(add_row_edges(g, row, connected_nodes[row], 1),
                                connected_nodes, row + 1)

\* Conversation._segments_to_graph
segments_to_graph(connected_nodes, turn_transition_rules) ==
    segments_to_graph_from(DirectedGraph(turn_transition_rules), connected_nodes, 1)

\* The values of allowed_gap tried
AllowedGaps == 0..1

InitTable ==
    /\ segments = <<>>
    /\ graph = DirectedGraph("default_turn_transition_rules")
    /\ called = FALSE
    /\ components = <<>>
    /\ calls = <<>>
    /\ frame = NoFrame

\* A row is appended to the data frame: any speaker, any interval of
\* 0..MaxTime; the index of a row is its position
AddRow ==
    /\ calls = <<>>
    /\ Len(segments) < MaxRows
    /\ \E speaker \in {"CHI", "FEM"}, onset \in 0..MaxTime :
          \E offset \in onset..MaxTime :
             segments' = Append(segments, Segment(Len(segments) + 1, speaker, onset, offset))
    /\ UNCHANGED <<graph, called, components, calls, frame>>

\* _find_connected_nodes then _segments_to_graph, as
\* get_interactional_sequences calls them (lines 663-664)
SegmentsToGraph ==
    /\ calls = <<>>
    /\ \E allowed_gap \in AllowedGaps, allow_segment_jump \in BOOLEAN :
          \E connected_nodes \in find_connected_nodes(segments, allowed_gap, allow_segment_jump) :
             /\ graph' = segments_to_graph(connected_nodes, "default_turn_transition_rules")
             /\ calls' = <<[op |-> "_segments_to_graph", allowed_gap |-> allowed_gap,
                            allow_segment_jump |-> allow_segment_jump,
                            connected_nodes |-> connected_nodes]>>
    /\ UNCHANGED <<segments, called, components, frame>>

NextTable == AddRow \/ SegmentsToGraph

\* Any table of at most MaxRows rows, turned into a graph
SpecTable == InitTable /\ [][NextTable]_vars

\* --------------------------------------------------- the paths, call by call
\* graph.get_paths(start_node, end_node) on two nodes of the graph; each
\* graph returned is logged as the node sequence it was made from
GetPaths ==
    /\ calls = <<>>
    /\ \E start_node, end_node \in NodeSet(graph) :
          calls' = <<[op |-> "get_paths", start_node |-> start_node, end_node |-> end_node,
                      outcome |-> "returned",
                      paths |-> get_paths(graph, start_node, end_node)]>>
    /\ UNCHANGED <<segments, graph, called, components, frame>>

\* graph.get_all_paths(): reading start_nodes raises on a graph without
\* edges
GetAllPaths ==
    /\ calls = <<>>
    /\ IF get_start_nodes(graph).outcome # "returned"
       THEN calls' = <<[op |-> "get_all_paths", start_node |-> None, end_node |-> None,
                        outcome |-> get_start_nodes(graph).outcome, paths |-> <<>>]>>
       ELSE \E start_order \in Orders(start_nodes(graph)), end_order \in Orders(end_nodes(graph)) :
               calls' = <<[op |-> "get_all_paths", start_node |-> None, end_node |-> None,
                           outcome |-> "returned",
                           paths |-> all_paths_from(graph, start_order, end_order)]>>
    /\ UNCHANGED <<segments, graph, called, components, frame>>

\* graph.add_edge(node1, node2) before the paths are asked for
AddPathEdge ==
    /\ calls = <<>>
    /\ AddFilterEdge

NextPaths == AddPathEdge \/ GetPaths \/ GetAllPaths

\* Any graph of at most MaxFilterEdges edges, and one call that enumerates
\* paths
SpecPaths == InitDag /\ [][NextPaths]_vars

\* ------------------------------------------ best_path, statement by statement
\* The locals of best_path and of the compute_costs and _compute_cost calls
\* it makes, at line 365.  start_order and end_order are the orders in which
\* the sets start_nodes and end_nodes are iterated; `start` counts the start
\* nodes taken, `outgoing` and `previous` are the positions of the loops of
\* lines 316 and 320; path_list and picked are the costs handed to the
\* selection rule at line 374 and the position of the one it returned.
CostsFrame(i, selection_key, start_order, end_order) ==
    [pc |-> "starts", component |-> i, selection_key |-> selection_key,
     start_order |-> start_order, end_order |-> end_order, start |-> 0,
     node_pair_cost |-> None, next_nodes_to_visit |-> <<>>, visited_pairs |-> {},
     current_node |-> None, live |-> FALSE, outgoing |-> 0, previous |-> 0,
     next_node_pairs |-> <<>>, path_list |-> <<>>, picked |-> 0]

\* The component the running call works on
Component == components[frame.component]

\* Line 316: the outgoing node the loop is at
OutgoingNode == Component.next[frame.current_node][frame.outgoing]

\* Lines 308-309 and 320: the previous cost the loop is at, read from the
\* table of the current node when it was not empty at line 309, the seed
\* cost otherwise
PreviousCost ==
    IF frame.live THEN Component.cost[frame.current_node][frame.previous].cost
    ELSE frame.node_pair_cost

\* Line 320: the loop over previous_costs has an item left
HasPrevious ==
    IF frame.live THEN frame.previous <= Len(Component.cost[frame.current_node])
    ELSE frame.previous = 1

\* graph.add_edge(node1, node2) as Conversation._segments_to_graph calls
\* it, up to MaxStepEdges edges
AddStepEdge ==
    /\ ~called
    /\ num_edges(graph) < MaxStepEdges
    /\ AddAnyEdge
    /\ Acyclic(graph')
    /\ Cardinality(EdgeSet(graph')) = num_edges(graph')
    /\ UNCHANGED <<segments, called, components, calls, frame>>

\* components[i].best_path(PathCost, default_path_selection_rules,
\* selection_key=...) is entered
EnterBestPath ==
    /\ called
    /\ frame.pc = "idle"
    /\ \E i \in 1..Len(components), selection_key \in SelectionKeys :
          \E start_order \in Orders(start_nodes(components[i])),
             end_order \in Orders(end_nodes(components[i])) :
             frame' = CostsFrame(i, selection_key, start_order, end_order)
    /\ UNCHANGED <<segments, graph, called, components, calls>>

\* Lines 348-349 and 289-294: _compute_cost is entered for the next start
\* node
NextStart ==
    /\ frame.pc = "starts"
    /\ frame.start < Len(frame.start_order)
    /\ LET start_node == frame.start_order[frame.start + 1]
       IN  frame' = [frame EXCEPT !.pc = "while",
                                  !.start = @ + 1,
                                  !.node_pair_cost = PathCost(segments, start_node),
                                  !.next_nodes_to_visit = <<<<None, start_node>>>>,
                                  !.visited_pairs = {}]
    /\ UNCHANGED <<segments, graph, called, components, calls>>

\* Lines 297-315: the first pair is popped; a pair not visited becomes the
\* current one
PopCostPair ==
    /\ frame.pc = "while"
    /\ frame.next_nodes_to_visit # <<>>
    /\ LET node_pair == Head(frame.next_nodes_to_visit)
       IN  IF node_pair \in frame.visited_pairs
           THEN frame' = [frame EXCEPT !.next_nodes_to_visit = Tail(@)]
           ELSE frame' = [frame EXCEPT !.pc = "outgoing",
                                       !.next_nodes_to_visit = Tail(@),
                                       !.visited_pairs = @ \cup {node_pair},
                                       !.current_node = node_pair[2],
                                       !.live = Component.cost[node_pair[2]] # <<>>,
                                       !.outgoing = 1,
                                       !.next_node_pairs = <<>>]
    /\ UNCHANGED <<segments, graph, called, components, calls>>

\* Lines 316-317: the next outgoing node
NextOutgoing ==
    /\ frame.pc = "outgoing"
    /\ frame.outgoing <= Len(Component.next[frame.current_node])
    /\ frame' = [frame EXCEPT !.pc = "previous",
                              !.previous = 1,
                              !.next_node_pairs = Append(@, <<frame.current_node, OutgoingNode>>)]
    /\ UNCHANGED <<segments, graph, called, components, calls>>

\* Lines 320-333: one previous cost is folded with the outgoing node and
\* the table of the outgoing node updated
RelaxStep ==
    /\ frame.pc = "previous"
    /\ HasPrevious
    /\ components' = [components EXCEPT ![frame.component] =
                         relax(@, segments, frame.selection_key, PreviousCost,
                               frame.current_node, OutgoingNode)]
    /\ frame' = [frame EXCEPT !.previous = @ + 1]
    /\ UNCHANGED <<segments, graph, called, calls>>

\* Line 320, the previous costs exhausted
EndPrevious ==
    /\ frame.pc = "previous"
    /\ ~HasPrevious
    /\ frame' = [frame EXCEPT !.pc = "outgoing", !.outgoing = @ + 1]
    /\ UNCHANGED <<segments, graph, called, components, calls>>

\* Line 334: the outgoing nodes exhausted, their pairs join the work-list
EndOutgoing ==
    /\ frame.pc = "outgoing"
    /\ frame.outgoing > Len(Component.next[frame.current_node])
    /\ frame' = [frame EXCEPT !.pc = "while",
                              !.next_nodes_to_visit = @ \o frame.next_node_pairs]
    /\ UNCHANGED <<segments, graph, called, components, calls>>

\* Line 297, the work-list empty: _compute_cost returns
EndCost ==
    /\ frame.pc = "while"
    /\ frame.next_nodes_to_visit = <<>>
    /\ frame' = [frame EXCEPT !.pc = "starts"]
    /\ UNCHANGED <<segments, graph, called, components, calls>>

\* Lines 367-386: compute_costs has returned; the best cost stored at an
\* end node is selected, the path walked back and returned
SelectPath ==
    /\ frame.pc = "starts"
    /\ frame.start = Len(frame.start_order)
    /\ LET temp == path_cost_temp(Component, frame.end_order)
           path_list == [k \in 1..Len(temp) |-> temp[k].cost]
       IN  /\ frame' = [frame EXCEPT !.pc = "returned",
                                     !.path_list = path_list,
                                     !.picked = selection_index(path_list, frame.selection_key)]
           /\ calls' = Append(calls, BestPathCall(frame.component, frame.selection_key,
                                                  select_path(Component, frame.end_order,
                                                              frame.selection_key)))
    /\ UNCHANGED <<segments, graph, called, components>>

NextRelax ==
    AddStepEdge \/ GetConnectedComponents \/ EnterBestPath \/ NextStart \/ PopCostPair
        \/ NextOutgoing \/ RelaxStep \/ EndPrevious \/ EndOutgoing \/ EndCost \/ SelectPath

\* The acyclic graphs of at most MaxStepEdges edges; one best_path call on a
\* component, followed statement by statement
SpecRelax == InitDag /\ [][NextRelax]_vars

\* compute_costs is running
InCosts == frame.pc \in {"starts", "while", "outgoing", "previous"}

\* The statements put together make the call: the tables left and the path
\* returned are those best_path computes on the component as it was
StepwiseCostsAgree ==
    frame.pc = "returned" =>
        LET r == best_path([Component EXCEPT !.cost = [n \in Node |-> <<>>]], segments, frame.start_order, frame.end_order,
                           frame.selection_key)
        IN  /\ r.graph = Component
            /\ BestPathCall(frame.component, frame.selection_key, r.result) = Last(calls)

\* ------------------------------------------------------------ properties
\* The component a call was made on
ComponentOf(call) == components[call.component]

\* The best_path calls that returned a path
ReturnedPath(k) == calls[k].op = "best_path" /\ calls[k].outcome = "returned"

\* C1: no two components returned by get_connected_components share a node.
CE_C1 ==
    called =>
        \A i, j \in 1..Len(components) :
            i # j => NodeSet(components[i]) \cap NodeSet(components[j]) = {}

\* C2: under the always-true policy the returned components are the
\* weakly-connected components of the adjacency: as many of them, and each
\* holding the edges of one.
CE_C2 ==
    (called /\ graph.transition_rules = "always_true") =>
        /\ Len(components) = Cardinality(WeakComponents(graph))
        /\ \A i \in 1..Len(components) :
              \E W \in WeakComponents(graph) :
                 EdgeSet(components[i]) = {e \in EdgeSet(graph) : e[1] \in W}

\* C3: on an acyclic component the winning cost of best_path has the best
\* selection key among the costs, folded from scratch, of all the paths
\* get_all_paths enumerates.
CE_C3 ==
    \A k \in 1..Len(calls) :
        (ReturnedPath(k) /\ Acyclic(ComponentOf(calls[k]))) =>
            LET key(c) == SortKey(c, calls[k].selection_key)
                all == get_all_paths(ComponentOf(calls[k]))
            IN  /\ \E p \in all : key(FoldPath(segments, p)) = key(calls[k].cost)
                /\ \A p \in all : ~TupleLess(key(calls[k].cost), key(FoldPath(segments, p)), 1)

\* C4: on an acyclic component the path best_path returns starts at the
\* ancestor of the winning cost, and folding the cost over its nodes from
\* scratch gives the winning cost.
CE_C4 ==
    \A k \in 1..Len(calls) :
        (ReturnedPath(k) /\ Acyclic(ComponentOf(calls[k])) /\ calls[k].path # <<>>) =>
            /\ calls[k].path[1][1] = calls[k].cost.ancestor
            /\ FoldPath(segments, PathNodes(calls[k].path)) = calls[k].cost

\* A graph that is one chain n1 -> n2 -> ... -> nk, each edge added once
LinearChain(g) ==
    /\ num_edges(g) >= 1
    /\ Acyclic(g)
    /\ num_edges(g) = num_nodes(g) - 1
    /\ Cardinality(start_nodes(g)) = 1
    /\ \A n \in NodeSet(g) : Len(g.next[n]) <= 1

\* The nodes of a chain from node n on
RECURSIVE ChainFrom(_, _)
ChainFrom(g, n) ==
    IF g.next[n] = <<>> THEN <<n>> ELSE <<n>> \o ChainFrom(g, g.next[n][1])

ChainNodes(g) == ChainFrom(g, CHOOSE n \in start_nodes(g) : TRUE)

\* C5: for a linear chain under the default policy there is one component,
\* holding all the edges, and best_path returns the edges of the chain in
\* order, with the cost of all its nodes.
CE_C5 ==
    (called /\ graph.transition_rules = "always_true" /\ LinearChain(graph)) =>
        /\ Len(components) = 1
        /\ EdgeSet(components[1]) = EdgeSet(graph)
        /\ num_edges(components[1]) = num_edges(graph)
        /\ \A k \in 1..Len(calls) :
              calls[k].op = "best_path" =>
                 /\ calls[k].outcome = "returned"
                 /\ calls[k].path = pairwise(ChainNodes(graph))
                 /\ calls[k].cost = FoldPath(segments, ChainNodes(graph))

\* The components compute_costs has run on (best_path runs it first)
Computed(i) == \E k \in 1..Len(calls) : calls[k].component = i

\* The keys of a cost table, in order
Keys(table) == [k \in 1..Len(table) |-> table[k].ancestor]

\* C6: after compute_costs on an acyclic component, the cost table of a
\* node that is not a start node has exactly one entry for each start node
\* the node is reachable from, and the cost under key a has ancestor a.
Inv_C6 ==
    \A i \in 1..Len(components) :
        (Computed(i) /\ Acyclic(components[i])) =>
            \A v \in NodeSet(components[i]) \ start_nodes(components[i]) :
                LET table == components[i].cost[v]
                IN  /\ Range(Keys(table)) =
                          {a \in start_nodes(components[i]) : v \in Descendants(components[i], a)}
                    /\ Cardinality(Range(Keys(table))) = Len(table)
                    /\ \A k \in 1..Len(table) : table[k].cost.ancestor = table[k].ancestor

\* C6 witness: a component with edges D -> F and E -> F on which the costs
\* were computed, F holding one entry under D and one under E.
Wit_C6 ==
    \E i \in 1..Len(components) :
        /\ Computed(i)
        /\ \E D, E, F \in NodeSet(components[i]) :
              /\ D # E
              /\ EdgeSet(components[i]) = {<<D, F>>, <<E, F>>}
              /\ Range(Keys(components[i].cost[F])) = {D, E}
              /\ Len(components[i].cost[F]) = 2

\* C7: under a policy that rejects every edge get_connected_components
\* returns no component.
Inv_C7 ==
    (called /\ graph.transition_rules = "reject_all") => components = <<>>

\* C7 witness: the call has returned on a graph of MaxEdges edges under
\* the rejecting policy.
Wit_C7 ==
    /\ called
    /\ graph.transition_rules = "reject_all"
    /\ num_edges(graph) = MaxEdges
    /\ components = <<>>

\* A sequence without a repeated element
NoRepeat(s) == \A i, j \in 1..Len(s) : s[i] = s[j] => i = j

\* C8: on an acyclic component best_path returns a path of the component:
\* the edges chain, each is an edge of the component, the first source is a
\* start node, the last target an end node, and no node occurs twice.
Inv_C8 ==
    \A k \in 1..Len(calls) :
        (calls[k].op = "best_path" /\ Acyclic(ComponentOf(calls[k]))) =>
            LET path == calls[k].path
                g == ComponentOf(calls[k])
            IN  /\ calls[k].outcome = "returned"
                /\ path # <<>>
                /\ \A i \in 1..(Len(path) - 1) : path[i][2] = path[i + 1][1]
                /\ \A i \in 1..Len(path) : path[i] \in EdgeSet(g)
                /\ path[1][1] \in start_nodes(g)
                /\ path[Len(path)][2] \in end_nodes(g)
                /\ NoRepeat(PathNodes(path))

\* C8 witness: best_path has returned a path of two edges or more on an
\* acyclic component.
Wit_C8 ==
    \E k \in 1..Len(calls) :
        /\ ReturnedPath(k)
        /\ Acyclic(ComponentOf(calls[k]))
        /\ Len(calls[k].path) >= 2

\* C9: on a component without end nodes best_path returns an empty result
\* and raises no error.
CE_C9 ==
    \A k \in 1..Len(calls) :
        (calls[k].op = "best_path" /\ end_nodes(ComponentOf(calls[k])) = {}) =>
            /\ calls[k].outcome = "returned"
            /\ calls[k].path = <<>>

\* A cycle can be reached from a start node
CycleFromStart(g) ==
    \E s \in start_nodes(g) : \E n \in Descendants(g, s) : n \in Descendants(g, n)

\* C10: when a cycle is reachable from a start node, compute_costs and
\* best_path end in an error: they neither return nor run for ever.
CE_C10 ==
    \A k \in 1..Len(calls) :
        CycleFromStart(ComponentOf(calls[k])) =>
            calls[k].outcome \notin {"returned", "never returns"}

\* The last call of the log is a read of start_nodes or end_nodes
LastIsRead == calls # <<>> /\ Last(calls).op \in {"start_nodes", "end_nodes"}

\* The policy of the graph accepts the edge u -> v under the keywords kw
Accepted(kw, u, v) == apply_transition_rules(graph, segments, u, v, kw)

\* C11: a node is a start node iff it has an outgoing edge the policy
\* accepts and no incoming edge the policy accepts, and an end node iff it
\* has an accepted incoming edge and no accepted outgoing edge.
CE_C11 ==
    (LastIsRead /\ Last(calls).outcome = "returned") =>
        \A kw \in Kwargs, n \in NodeSet(graph) :
            LET out == \E v \in Range(graph.next[n]) : Accepted(kw, n, v)
                inc == \E m \in NodeSet(graph) :
                          n \in Range(graph.next[m]) /\ Accepted(kw, m, n)
            IN  IF Last(calls).op = "start_nodes"
                THEN n \in Last(calls).nodes <=> (out /\ ~inc)
                ELSE n \in Last(calls).nodes <=> (inc /\ ~out)

\* C11 as amended: on a graph that has an edge, a node is a start node iff
\* it has an outgoing edge and no incoming edge in the adjacency, and an end
\* node iff it has an incoming edge and no outgoing edge, whatever the
\* policy accepts.
Inv_C11 ==
    (LastIsRead /\ Last(calls).outcome = "returned") =>
        \A n \in NodeSet(graph) :
            LET out == graph.next[n] # <<>>
                inc == \E m \in NodeSet(graph) : n \in Range(graph.next[m])
            IN  IF Last(calls).op = "start_nodes"
                THEN n \in Last(calls).nodes <=> (out /\ ~inc)
                ELSE n \in Last(calls).nodes <=> (inc /\ ~out)

\* C11 witness: start_nodes has returned a start node on a graph of
\* MaxEdges edges whose policy rejects every edge.
Wit_C11 ==
    /\ LastIsRead
    /\ Last(calls).op = "start_nodes"
    /\ Last(calls).outcome = "returned"
    /\ Last(calls).nodes # {}
    /\ graph.transition_rules = "reject_all"
    /\ num_edges(graph) = MaxEdges

\* C12: on a graph without edges start_nodes and end_nodes return the empty
\* set and raise nothing.
CE_C12 ==
    (LastIsRead /\ Edges(graph) = <<>>) =>
        /\ Last(calls).outcome = "returned"
        /\ Last(calls).nodes = {}

\* The add_edge calls of the log, in call order
AddEdgeCalls == SelectSeq(calls, LAMBDA c : c.op = "add_edge")

\* The targets of the add_edge calls whose source is u, in call order
TargetsOf(u) ==
    LET from_u == SelectSeq(AddEdgeCalls, LAMBDA c : c.node1 = u)
    IN  [i \in 1..Len(from_u) |-> from_u[i].node2]

\* C13: after any sequence of add_edge calls the successor list of a node
\* is the sequence of the targets of the calls made with it as source, in
\* call order and with duplicates; the known nodes are the sources and
\* targets of the calls; num_edges is the number of calls.
Inv_C13 ==
    /\ \A u \in Node : graph.next[u] = TargetsOf(u)
    /\ NodeSet(graph) = {AddEdgeCalls[i].node1 : i \in 1..Len(AddEdgeCalls)}
                        \cup {AddEdgeCalls[i].node2 : i \in 1..Len(AddEdgeCalls)}
    /\ Cardinality(NodeSet(graph)) = num_nodes(graph)
    /\ num_edges(graph) = Len(AddEdgeCalls)

\* C13 witness: MaxEdges calls have been made, one of them a self-loop and
\* one of them a repetition of an earlier call.
Wit_C13 ==
    /\ Len(AddEdgeCalls) = MaxEdges
    /\ \E i \in 1..Len(AddEdgeCalls) : AddEdgeCalls[i].node1 = AddEdgeCalls[i].node2
    /\ \E i, j \in 1..Len(AddEdgeCalls) : i < j /\ AddEdgeCalls[i] = AddEdgeCalls[j]

\* C14: a call does not read the cost entries an earlier call left: two
\* best_path calls in a row on the same component, with the same arguments,
\* return the same path and the same winning cost.
CE_C14 ==
    \A k \in 1..(Len(calls) - 1) :
        (/\ calls[k].op = "best_path"
         /\ calls[k + 1].op = "best_path"
         /\ calls[k + 1].component = calls[k].component
         /\ calls[k + 1].selection_key = calls[k].selection_key) =>
            /\ calls[k + 1].outcome = calls[k].outcome
            /\ calls[k + 1].path = calls[k].path
            /\ calls[k + 1].cost = calls[k].cost

\* A copy of a graph with empty cost tables
Fresh(g) == [g EXCEPT !.cost = [n \in Node |-> <<>>]]

\* The entry of node n's cost table under key a, <<>> when there is none
Entry(g, n, a) ==
    LET k == KeyIndex(g.cost[n], a)
    IN  IF k = 0 THEN <<>> ELSE <<g.cost[n][k]>>

\* The components on which one call has been made, and only one
CalledOnce(i) == Cardinality({k \in 1..Len(calls) : calls[k].component = i}) = 1

\* C15: on an acyclic component the entries compute_costs leaves under a
\* start node a are those of one _compute_cost run seeded at a on a fresh
\* copy of the component, whatever the order the start nodes are taken in.
CE_C15 ==
    \A k \in 1..Len(calls) :
        LET g == ComponentOf(calls[k])
        IN  (CalledOnce(calls[k].component) /\ Acyclic(g)) =>
               \A a \in start_nodes(g), n \in NodeSet(g) :
                  Entry(g, n, a)
                     = Entry(compute_cost(Fresh(g), segments, a, calls[k].selection_key), n, a)

\* C16: after the propagation seeded at a start node s, the cost table of
\* s holds one entry, keyed by s, whose cost is the seed cost of s alone.
CE_C16 ==
    \A i \in 1..Len(components) :
        Computed(i) =>
            \A s \in start_nodes(components[i]) :
                /\ Len(components[i].cost[s]) = 1
                /\ components[i].cost[s][1].ancestor = s
                /\ components[i].cost[s][1].cost = PathCost(segments, s)

\* C16 as amended: after the propagation seeded at a start node s, the cost
\* table of s holds no entry; the seed cost of s alone is not stored, it is
\* folded into the entry keyed by s that each successor of s holds.
Inv_C16 ==
    \A i \in 1..Len(components) :
        Computed(i) =>
            \A s \in start_nodes(components[i]) :
                /\ components[i].cost[s] = <<>>
                /\ \A n \in Range(components[i].next[s]) :
                      /\ Entry(components[i], n, s) # <<>>
                      /\ Entry(components[i], n, s)[1].cost.ancestor = s
                      /\ Entry(components[i], n, s)[1].cost.speakers[1] = segments[s].speaker
                      /\ num_segments(Entry(components[i], n, s)[1].cost) >= 2

\* C16 witness: the costs have been computed on a component whose start
\* node has two successors.
Wit_C16 ==
    \E i \in 1..Len(components) :
        /\ Computed(i)
        /\ \E s \in start_nodes(components[i]) : Len(components[i].next[s]) >= 2

Inv_C18 ==
    [][called' =>
          /\ graph'.nodes = graph.nodes
          /\ graph'.next = graph.next
          /\ ~called => graph'.cost = graph.cost
          /\ called =>
                /\ Len(components') = Len(components)
                /\ \A i \in 1..Len(components) :
                      /\ components'[i].nodes = components[i].nodes
                      /\ components'[i].next = components[i].next]_vars

\* C18 witness: a call has filled cost tables of a component of MaxEdges
\* edges.
Wit_C18 ==
    \E i \in 1..Len(components) :
        /\ Computed(i)
        /\ num_edges(components[i]) = MaxEdges
        /\ \E n \in NodeSet(components[i]) : components[i].cost[n] # <<>>

CE_C20 ==
    /\ callable(graph.transition_rules)
    /\ \A k \in Assignments :
          ~callable(calls[k].value) => calls[k].outcome # "returned"

\* The pairs the policy was called on, in call order
EvaluatedPairs ==
    [k \in 1..Len(frame.evaluated) |->
        <<frame.evaluated[k].candidate_node, frame.evaluated[k].connected_node>>]

\* The chains of a list, one after the other
RECURSIVE Concat(_)
Concat(chains) == IF chains = <<>> THEN <<>> ELSE Head(chains) \o Concat(Tail(chains))

\* The pairs recorded so far: the chains kept, and the chain of the seed
\* being traversed
RecordedPairs ==
    Concat(frame.chain_sequences) \o (IF frame.pc = "while" THEN frame.transition ELSE <<>>)

\* C21: during one get_connected_components call the policy is called at
\* most once on a pair and only on pairs of the adjacency, no pair is
\* recorded twice, the pairs recorded are those the policy accepted, and
\* when the call returns the policy has been called on every distinct pair
\* of the adjacency.
Inv_C21 ==
    frame.pc # "idle" =>
        /\ NoRepeat(EvaluatedPairs)
        /\ Range(EvaluatedPairs) \subseteq EdgeSet(graph)
        /\ NoRepeat(RecordedPairs)
        /\ RecordedPairs = SelectSeq(EvaluatedPairs,
                                     LAMBDA e : apply_transition_rules(graph, segments, e[1], e[2], frame.kw))
        /\ frame.pc = "returned" => Range(EvaluatedPairs) = EdgeSet(graph)

\* C21 witness: the call has returned on a graph where a pair u -> v was
\* rejected after the pair leading to u was accepted, so that u -> v was put
\* on the work-list twice: from the pair leading to u, and with u as seed.
Wit_C21 ==
    /\ frame.pc = "returned"
    /\ \E j, k \in 1..Len(frame.evaluated) :
          /\ frame.evaluated[j].verdict
          /\ ~frame.evaluated[k].verdict
          /\ frame.evaluated[j].connected_node = frame.evaluated[k].candidate_node

\* C30: get_connected_components terminates on every finite graph, cycles,
\* self-loops and duplicate edges included: a call that is in the traversal
\* loops leaves them, and the policy is never called more often than the
\* adjacency has distinct pairs, each being expanded at most once across
\* all the seeds.
Inv_C30 ==
    /\ [](InTraversal => Len(frame.evaluated) <= Cardinality(EdgeSet(graph)))
    /\ (InTraversal ~> (frame.pc \in {"merge", "returned"}))

\* C30 witness: the call has returned on a graph with a cycle, every pair
\* of which the policy accepted.
Wit_C30 ==
    /\ frame.pc = "returned"
    /\ \E n \in NodeSet(graph) : n \in Descendants(graph, n)
    /\ Len(frame.evaluated) = Cardinality(EdgeSet(graph))
    /\ \A k \in 1..Len(frame.evaluated) : frame.evaluated[k].verdict

\* The pairs of the adjacency the policy accepts under the keywords kw
AcceptedPairs(kw) ==
    {e \in EdgeSet(graph) : apply_transition_rules(graph, segments, e[1], e[2], kw)}

\* C27: the union of the edge sets of the components returned by
\* get_connected_components is exactly the set of the distinct pairs of the
\* adjacency the policy accepts: every accepted pair is in some component
\* and no rejected pair is in any.
Inv_C27 ==
    called =>
        UNION {EdgeSet(components[i]) : i \in 1..Len(components)} = AcceptedPairs(Last(calls).kw)

\* C27 witness: the call has returned on a graph with a chain u -> v -> w -> x
\* whose middle pair the policy rejects and whose outer pairs it accepts;
\* the outer pairs are in components and the middle one is in none.
Wit_C27 ==
    /\ called
    /\ \E u, v, w, x \in NodeSet(graph) :
          /\ {<<u, v>>, <<w, x>>} \subseteq AcceptedPairs(Last(calls).kw)
          /\ <<v, w>> \in EdgeSet(graph) \ AcceptedPairs(Last(calls).kw)
          /\ \E i \in 1..Len(components) : <<u, v>> \in EdgeSet(components[i])
          /\ \E i \in 1..Len(components) : <<w, x>> \in EdgeSet(components[i])
          /\ \A i \in 1..Len(components) : <<v, w>> \notin EdgeSet(components[i])

\* How many times x is in the sequence s
Count(s, x) == Cardinality({k \in 1..Len(s) : s[k] = x})

\* C28: every pair the policy accepts is in exactly one of the components
\* returned by get_connected_components, and once in it.
CE_C28 ==
    (called /\ graph.transition_rules = "always_true") =>
        \A e \in EdgeSet(graph) :
            /\ Cardinality({i \in 1..Len(components) : e \in EdgeSet(components[i])}) = 1
            /\ \A i \in 1..Len(components) : Count(Edges(components[i]), e) <= 1

\* C24: when allow_multi_unit_turns is False, default_turn_transition_rules
\* accepts no pair of segments of the same speaker, whatever the target
\* participant, the interactants and allow_interactions_btw_interactants.
CE_C24 ==
    (frame.pc # "idle" /\ graph.transition_rules = "default_turn_transition_rules"
        /\ ~frame.kw.allow_multi_unit_turns) =>
        \A k \in 1..Len(frame.evaluated) :
            frame.evaluated[k].verdict =>
                segments[frame.evaluated[k].candidate_node].speaker
                    # segments[frame.evaluated[k].connected_node].speaker

\* The segments folded into the cost made by call k: the seed for a cost
\* made by the constructor, and the segments of the receiver followed by the
\* segment added for a cost made by a combine
RECURSIVE FoldedSegments(_)
FoldedSegments(k) ==
    IF calls[k].op = "__init__" THEN <<calls[k].other>>
    ELSE Append(FoldedSegments(calls[k].receiver), calls[k].other)

\* The sum of the durations of the segments of a sequence
RECURSIVE SumDurations(_)
SumDurations(path) ==
    IF path = <<>> THEN 0 ELSE SegDuration(segments[Head(path)]) + SumDurations(Tail(path))

\* The adjacent pairs of a sequence of segments whose speakers differ
SpeakerChanges(path) ==
    {i \in 1..(Len(path) - 1) : segments[path[i]].speaker # segments[path[i + 1]].speaker}

\* C25: for a cost built from a seed segment and combined with any sequence
\* of segments, num_segments is the number of segments folded, seed
\* included, num_turns is one less, num_turn_transitions counts the adjacent
\* pairs with different speakers, num_turn_transitions and
\* num_multi_turns_transitions add up to num_turns, and duration is the sum
\* of the durations of the segments.
Inv_C25 ==
    \A k \in 1..Len(calls) :
        LET cost == calls[k].cost
            path == FoldedSegments(k)
        IN  /\ num_segments(cost) = Len(path)
            /\ num_turns(cost) = num_segments(cost) - 1
            /\ num_turn_transitions(cost) = Cardinality(SpeakerChanges(path))
            /\ num_turn_transitions(cost) + num_multi_turns_transitions(cost) = num_turns(cost)
            /\ attr(cost, "duration") = SumDurations(path)

\* C25 witness: a cost of three segments has been made, with one change of
\* speaker and one pair of the same speaker.
Wit_C25 ==
    \E k \in 1..Len(calls) :
        /\ Len(FoldedSegments(k)) = 3
        /\ num_turn_transitions(calls[k].cost) = 1
        /\ num_multi_turns_transitions(calls[k].cost) = 1

\* C22: every edge made by _find_connected_nodes and _segments_to_graph
\* goes from a segment to another segment with a strictly greater onset, so
\* the graph built from a segment table has no self-loop and no cycle.
Inv_C22 ==
    calls # <<>> =>
        /\ \A t_row \in 1..Len(segments) :
              \A c_row \in Range(calls[1].connected_nodes[t_row]) :
                 t_row # c_row /\ segments[t_row].onset < segments[c_row].onset
        /\ \A e \in EdgeSet(graph) :
              e[1] # e[2] /\ segments[e[1]].onset < segments[e[2]].onset
        /\ Acyclic(graph)

\* C22 witness: a graph of two edges or more has been built from a table
\* in which two rows have the same onset and overlap, and in which a row
\* comes before a row with a smaller onset.
Wit_C22 ==
    /\ calls # <<>>
    /\ num_edges(graph) >= 2
    /\ \E r, q \in 1..Len(segments) :
          /\ r # q
          /\ segments[r].onset = segments[q].onset
          /\ overlaps(segments[r].onset, segments[r].offset, segments[q].onset, segments[q].offset)
    /\ \E r, q \in 1..Len(segments) : r < q /\ segments[q].onset < segments[r].onset

\* The simple paths of the graph that extend the node sequence p and end at
\* end_node (p has no repeated node)
RECURSIVE SimplePathsVia(_, _)
SimplePathsVia(p, end_node) ==
    (IF Last(p) = end_node THEN {p} ELSE {})
        \cup UNION {SimplePathsVia(Append(p, n), end_node) :
                       n \in Range(graph.next[Last(p)]) \ Range(p)}

\* The number of ways of walking the node sequence p in the multigraph: the
\* product of the numbers of edges between its successive nodes
RECURSIVE Walks(_, _)
Walks(p, i) ==
    IF i >= Len(p) THEN 1
    ELSE Count(graph.next[p[i]], p[i + 1]) * Walks(p, i + 1)

\* The node sequence p is a simple path of the graph from s to e
SimplePath(p, s, e) ==
    /\ p # <<>>
    /\ p[1] = s
    /\ Last(p) = e
    /\ NoRepeat(p)
    /\ \A i \in 1..(Len(p) - 1) : <<p[i], p[i + 1]>> \in EdgeSet(graph)

TableEntries ==
    UNION {{<<v, Component.cost[v][k]>> : k \in 1..Len(Component.cost[v])} : v \in Node}

\* The backward walk of best_path, lines 379-384, from the entry e stored at
\* node v
WalkFrom(v, e) == Backtrack(Component, e.ancestor, <<v, e.previous>>)

\* C29: at every step of compute_costs on an acyclic component, each table
\* entry (cost, predecessor) stored at node v under key a is such that
\* predecessor -> v is an edge of the component, cost.ancestor is a, and
\* predecessor is a itself or holds an entry under key a; the backward walk
\* from any entry never looks up a missing key and stops at a, and so does
\* the walk best_path makes.
Inv_C29 ==
    /\ frame.pc # "idle" =>
          \A p \in TableEntries :
              LET v == p[1]
                  e == p[2]
              IN  /\ <<e.previous, v>> \in EdgeSet(Component)
                  /\ e.cost.ancestor = e.ancestor
                  /\ \/ e.previous = e.ancestor
                     \/ KeyIndex(Component.cost[e.previous], e.ancestor) # 0
                  /\ WalkFrom(v, e).outcome = "returned"
                  /\ Last(WalkFrom(v, e).best_path) = e.ancestor
    /\ frame.pc = "returned" =>
          /\ Last(calls).outcome = "returned"
          /\ Last(calls).path[1][1] = Last(calls).cost.ancestor

\* compute_costs is running on a component with two start nodes, one table
\* holds an entry for each of them, and some entry was reached through a
\* node that is not its ancestor
Wit_C29 ==
    /\ InCosts
    /\ \E v \in Node : Len(Component.cost[v]) >= 2
    /\ \E p \in TableEntries : p[2].previous # p[2].ancestor

\* The key of cost a is less than the key of cost b, under the selection key
\* of the running call
KeyLess(a, b) ==
    TupleLess(SortKey(a, frame.selection_key), SortKey(b, frame.selection_key), 1)

\* The cost line 322 makes of the previous cost and the outgoing node the
\* loops are at
Candidate == PathCost_add(segments, PreviousCost, OutgoingNode)

\* The position, in the table of the outgoing node, of the entry under the
\* ancestor of the candidate; 0 when there is none
ExistingIndex == KeyIndex(Component.cost[OutgoingNode], Candidate.ancestor)

\* The loop of line 320 is at a previous cost whose candidate has the key of
\* the entry stored at the outgoing node under the same ancestor
TieAhead ==
    /\ frame.pc = "previous"
    /\ HasPrevious
    /\ ExistingIndex # 0
    /\ ~KeyLess(Component.cost[OutgoingNode][ExistingIndex].cost, Candidate)
    /\ ~KeyLess(Candidate, Component.cost[OutgoingNode][ExistingIndex].cost)

\* The pick of best_path, line 374, is a member of the list of costs whose
\* key no other exceeds, and the first of those with that key
PickIsFirstMaximal ==
    frame.pc = "returned" =>
        /\ frame.picked \in 1..Len(frame.path_list)
        /\ \A j \in 1..Len(frame.path_list) :
              ~KeyLess(frame.path_list[frame.picked], frame.path_list[j])
        /\ \A j \in 1..(frame.picked - 1) :
              KeyLess(frame.path_list[j], frame.path_list[frame.picked])
        /\ Last(calls).cost = frame.path_list[frame.picked]

\* A relaxation of an entry that exists leaves there one of the two costs
\* handed to the selection rule, of a key that neither exceeds; on a tie the
\* table of the outgoing node stays as it was, cost and previous node
RelaxKeepsOnTie ==
    (frame.pc = "previous" /\ HasPrevious /\ ExistingIndex # 0) =>
        LET existing == Component.cost[OutgoingNode][ExistingIndex]
            after == components'[frame.component].cost[OutgoingNode][ExistingIndex]
        IN  /\ after.cost \in {existing.cost, Candidate}
            /\ ~KeyLess(after.cost, existing.cost)
            /\ ~KeyLess(after.cost, Candidate)
            /\ TieAhead =>
                  components'[frame.component].cost[OutgoingNode] = Component.cost[OutgoingNode]

\* C26: default_path_selection_rules returns a member of its input whose
\* selection-key tuple is maximal, and among equal maxima the one that comes
\* first in the input; consequently, in relaxation, an existing table entry
\* and its predecessor pointer are kept when the candidate cost ties with it.
Inv_C26 == [](PickIsFirstMaximal) /\ [][RelaxKeepsOnTie]_vars

\* A relaxation is about to compare a candidate with an entry of the same
\* key that was reached through another node
Wit_C26 ==
    /\ TieAhead
    /\ Component.cost[OutgoingNode][ExistingIndex].previous # frame.current_node

\* best_path has picked among three costs or more, the pick is not the first
\* of the list and a later cost has the key of the pick
PickAmongTies ==
    /\ frame.pc = "returned"
    /\ Len(frame.path_list) >= 3
    /\ frame.picked > 1
    /\ \E j \in (frame.picked + 1)..Len(frame.path_list) :
          ~KeyLess(frame.path_list[j], frame.path_list[frame.picked])

====
